---- MODULE Spec2Model ----
(***************************************************************************)
(* Model of app_svm.py, a Streamlit script.  Streamlit executes the whole  *)
(* script top to bottom once per "script run": on the initial page load    *)
(* and again whenever a button is pressed.  One process serves a sequence  *)
(* of script runs; st.cache_resource and the widget values of the session  *)
(* survive from one run to the next, every other name is rebound by the    *)
(* run.  The position of the current run in the script is pc.              *)
(*                                                                         *)
(* Real-valued fields (the two blood pressures, cholesterol) are held as   *)
(* integers in units of 1/Scale; probabilities as integers in units of     *)
(* 1/ProbDen.  "{x:.2f}" is modelled by Fmt2, which produces the string.   *)
(***************************************************************************)
EXTENDS Integers, Sequences, FiniteSets, TLC

\* ---------------------------------------------------------------- bounds
MaxRuns == 3      \* script runs of one process that are explored
Scale   == 1      \* blood pressure / cholesterol resolution: units of 1/Scale
ProbDen == 8      \* probability resolution: units of 1/ProbDen

\* ------------------------------------------------------ program constants
AgeMin == 30
AgeMax == 105
AgeDefault == 50
SysMin == 70
SysMax == 130
SysDefault == 120
DiaMin == 60
DiaMax == 120
DiaDefault == 80
CholMin == 70
CholMax == 130
CholDefault == 90
HttpOk == 200
NumUrls == 2

VARIABLES
    pc,            \* position of the current script run
    runs,          \* script runs started so far in this process
    trigger,       \* what started the current run: "load" | "submit" | "download"
    cache,         \* st.cache_resource entry of load_model: 0 = empty, else instance id
    opens,         \* how many times the artifact file was opened
    loads,         \* how many times the artifact was deserialized
    model,         \* the script's global `model` in this run (0 = unbound)
    fetched,       \* status code of each GET made by this run (0: no response)
    animations,    \* the list being built by the comprehension of line 81
    slots,         \* what col1 / col2 show
    age, systolic_bp, diastolic_bp, cholesterol,   \* widget values
    formShown,     \* the form was rendered by this run
    submitted,     \* value returned by st.form_submit_button
    input_df,      \* the one-row frame: sequence of <<column, value>>
    calls,         \* invocations made on the model in this run
    prediction, pred_proba, confidence,
    box, message, gauge, report, footer,           \* rendered elements
    err            \* exception that ended the run ("none" if none)

vars == << pc, runs, trigger, cache, opens, loads, model, fetched, animations, slots,
           age, systolic_bp, diastolic_bp, cholesterol, formShown, submitted,
           input_df, calls, prediction, pred_proba, confidence,
           box, message, gauge, report, footer, err >>

session == << cache, opens, loads >>
widgets == << age, systolic_bp, diastolic_bp, cholesterol >>
invocation == << input_df, calls, prediction, pred_proba, confidence >>
rendered == << box, message, gauge, report >>

\* ------------------------------------------------------------ formatting
Abs(x) == IF x < 0 THEN -x ELSE x

\* n/d rounded to the nearest integer, ties to even (n >= 0, d > 0)
RoundHalfEven(n, d) ==
    LET q == n \div d
        r == n % d
    IN  IF 2 * r < d THEN q
        ELSE IF 2 * r > d THEN q + 1
        ELSE IF q % 2 = 0 THEN q ELSE q + 1

Digit(k) == ToString(k % 10)

\* the text produced by f"{x:.2f}" for x = n/d
Fmt2(n, d) ==
    LET h == RoundHalfEven(100 * Abs(n), d)
    IN  (IF n < 0 THEN "-" ELSE "") \o ToString(h \div 100) \o "."
            \o Digit(h \div 10) \o Digit(h)

\* ---------------------------------------------------------- the widgets
\* st.number_input(min_value, max_value): a typed value inside the range is
\* taken; one outside is either clamped to the nearer end or refused,
\* leaving the current value.
NumberInputUnbounded(lo, hi, cur, typed) == {typed}

NumberInput(lo, hi, cur, typed) ==
    IF typed < lo THEN {lo, cur}
    ELSE IF typed > hi THEN {hi, cur}
    ELSE {typed}

TypedAge  == {AgeMin - 1, AgeMin, AgeMax, AgeMax + 1}
TypedSys  == {SysMin * Scale - 1, SysMax * Scale + 1}
TypedDia  == {DiaMin * Scale - 1, DiaMax * Scale + 1}
TypedChol == {CholMin * Scale - 1}

\* ------------------------------------------------------------ the model
Labels == {0 - 1, 0, 1, 2}
\* answers of predict_proba: certain either way, and a little off one half either way
ProbaVectors == { << p, ProbDen - p >> : p \in {0, 3, ProbDen - 3, ProbDen} }
NoValue == << >>     \* a name not bound / an element not rendered
Unbound == 0 - 1000  \* the same, for the integer-valued names

\* Python's seq[i]: 0-based, a negative i counts from the end
ValidIndex(seq, i) == i >= 0 - Len(seq) /\ i < Len(seq)
Index(seq, i) == IF i < 0 THEN seq[Len(seq) + i + 1] ELSE seq[i + 1]

Idle == {"start", "done", "error"}

Init ==
    /\ pc = "start"
    /\ runs = 0
    /\ trigger = "load"
    /\ cache = 0
    /\ opens = 0
    /\ loads = 0
    /\ model = 0
    /\ fetched = << >>
    /\ animations = << >>
    /\ slots = << "blank", "blank" >>
    /\ age = AgeDefault
    /\ systolic_bp = SysDefault * Scale
    /\ diastolic_bp = DiaDefault * Scale
    /\ cholesterol = CholDefault * Scale
    /\ formShown = FALSE
    /\ submitted = FALSE
    /\ input_df = NoValue
    /\ calls = << >>
    /\ prediction = Unbound
    /\ pred_proba = NoValue
    /\ confidence = Unbound
    /\ box = NoValue
    /\ message = NoValue
    /\ gauge = NoValue
    /\ report = NoValue
    /\ footer = FALSE
    /\ err = "none"

\* A new script run starts with nothing bound and an empty page.
BeginRun(t) ==
    /\ pc \in Idle
    /\ runs < MaxRuns
    /\ runs' = runs + 1
    /\ trigger' = t
    /\ pc' = "load_model"
    /\ model' = 0
    /\ fetched' = << >>
    /\ animations' = << >>
    /\ slots' = << "blank", "blank" >>
    /\ formShown' = FALSE
    /\ submitted' = FALSE
    /\ input_df' = NoValue
    /\ calls' = << >>
    /\ prediction' = Unbound
    /\ pred_proba' = NoValue
    /\ confidence' = Unbound
    /\ box' = NoValue
    /\ message' = NoValue
    /\ gauge' = NoValue
    /\ report' = NoValue
    /\ footer' = FALSE
    /\ err' = "none"
    /\ UNCHANGED session

\* the page is opened or reloaded in the browser
PageLoad ==
    /\ BeginRun("load")
    /\ UNCHANGED widgets

\* the user fills the form and presses "Predict"
Submit ==
    /\ formShown
    /\ BeginRun("submit")
    /\ \E ta \in TypedAge, ts \in TypedSys, td \in TypedDia, tc \in TypedChol :
          /\ age' \in NumberInput(AgeMin, AgeMax, age, ta)
          /\ systolic_bp' \in NumberInput(SysMin * Scale, SysMax * Scale, systolic_bp, ts)
          /\ diastolic_bp' \in NumberInput(DiaMin * Scale, DiaMax * Scale, diastolic_bp, td)
          /\ cholesterol' \in NumberInput(CholMin * Scale, CholMax * Scale, cholesterol, tc)

\* the user presses "Download Report" of a displayed result
Download ==
    /\ report # NoValue
    /\ BeginRun("download")
    /\ UNCHANGED widgets

Raise(e) ==
    /\ pc' = "error"
    /\ err' = e

\* load_model without @st.cache_resource: the file is read by every run
LoadModelUncached ==
    /\ pc = "load_model"
    /\ \E file \in {"ok", "missing", "corrupt"} :
          \/ /\ file = "ok"
             /\ opens' = opens + 1
             /\ loads' = loads + 1
             /\ model' = loads + 1
             /\ pc' = "fetch"
             /\ UNCHANGED << cache, err >>
          \/ /\ file = "missing"
             /\ Raise("FileNotFoundError")
             /\ UNCHANGED << session, model >>
          \/ /\ file = "corrupt"
             /\ opens' = opens + 1
             /\ Raise("UnpicklingError")
             /\ UNCHANGED << cache, loads, model >>
    /\ UNCHANGED << runs, trigger, fetched, animations, slots, widgets, formShown,
                    submitted, invocation, rendered, footer >>

\* lines 12-16
LoadModel ==
    /\ pc = "load_model"
    /\ \/ /\ cache # 0
          /\ model' = cache
          /\ pc' = "fetch"
          /\ UNCHANGED << session, err >>
       \/ /\ cache = 0
          /\ \E file \in {"ok", "missing", "corrupt"} :
                \/ /\ file = "ok"
                   /\ opens' = opens + 1
                   /\ loads' = loads + 1
                   /\ cache' = loads + 1
                   /\ model' = loads + 1
                   /\ pc' = "fetch"
                   /\ UNCHANGED err
                \/ /\ file = "missing"
                   /\ Raise("FileNotFoundError")
                   /\ UNCHANGED << session, model >>
                \/ /\ file = "corrupt"
                   /\ opens' = opens + 1
                   /\ Raise("UnpicklingError")
                   /\ UNCHANGED << cache, loads, model >>
    /\ UNCHANGED << runs, trigger, fetched, animations, slots, widgets, formShown,
                    submitted, invocation, rendered, footer >>

\* load_lottie_url with r.raise_for_status() in place of the status test
LoadLottieUrlRaiseForStatus(net, status, body) ==
    IF net # "response" THEN [exc |-> net, val |-> "None"]
    ELSE IF status # HttpOk THEN [exc |-> "HTTPError", val |-> "None"]
    ELSE IF body = "not_json" THEN [exc |-> "JSONDecodeError", val |-> "None"]
    ELSE [exc |-> "none", val |-> body]

\* lines 65-69: the result of load_lottie_url for what the network does
LoadLottieUrl(net, status, body) ==
    IF net # "response" THEN [exc |-> net, val |-> "None"]
    ELSE IF status # HttpOk THEN [exc |-> "none", val |-> "None"]
    ELSE IF body = "not_json" THEN [exc |-> "JSONDecodeError", val |-> "None"]
    ELSE [exc |-> "none", val |-> body]

\* line 81: one iteration of [load_lottie_url(url) for url in urls]
FetchAnimation ==
    /\ pc = "fetch"
    /\ \E net \in {"response", "Timeout", "ConnectionError"},
          status \in {HttpOk, 404},
          body \in {"json", "empty_json", "not_json"} :
          LET r == LoadLottieUrl(net, status, body) IN
          /\ fetched' = Append(fetched, IF net = "response" THEN status ELSE 0)
          /\ IF r.exc # "none"
             THEN /\ Raise(r.exc)
                  /\ UNCHANGED animations
             ELSE /\ animations' = Append(animations, r.val)
                  /\ pc' = IF Len(animations) + 1 = NumUrls THEN "columns" ELSE "fetch"
                  /\ UNCHANGED err
    /\ UNCHANGED << runs, trigger, session, model, slots, widgets, formShown, submitted,
                    invocation, rendered, footer >>

\* Python truthiness of what load_lottie_url returned
Truthy(v) == v = "json"

\* lines 86-96: one column
Slot(v) == IF Truthy(v) THEN "lottie" ELSE "warning"

\* lines 84-96
RenderColumns ==
    /\ pc = "columns"
    /\ slots' = << Slot(animations[1]), Slot(animations[2]) >>
    /\ pc' = "form"
    /\ UNCHANGED << runs, trigger, session, model, fetched, animations, widgets,
                    formShown, submitted, invocation, rendered, footer, err >>

\* the prediction block entered without testing `submitted`
InputFormAlwaysPredicts ==
    /\ pc = "form"
    /\ formShown' = TRUE
    /\ submitted' = (trigger = "submit")
    /\ pc' = "predict"
    /\ UNCHANGED << runs, trigger, session, model, fetched, animations, slots, widgets,
                    invocation, rendered, footer, err >>

\* lines 136-157: the form is rendered; the button returns True only in the run
\* its press started
InputForm ==
    /\ pc = "form"
    /\ formShown' = TRUE
    /\ submitted' = (trigger = "submit")
    /\ pc' = IF submitted' THEN "predict" ELSE "footer"
    /\ UNCHANGED << runs, trigger, session, model, fetched, animations, slots, widgets,
                    invocation, rendered, footer, err >>

\* the columns in the order of the form on screen (cholesterol before diastolic)
InputDfScreenOrder(a, s, d, c) ==
    << << "age", a >>, << "systolic_bp", s >>, << "cholesterol", c >>,
       << "diastolic_bp", d >> >>

\* lines 160-165
InputDf(a, s, d, c) ==
    << << "age", a >>, << "systolic_bp", s >>, << "diastolic_bp", d >>,
       << "cholesterol", c >> >>

\* lines 160-168
Predict ==
    /\ pc = "predict"
    /\ input_df' = InputDf(age, systolic_bp, diastolic_bp, cholesterol)
    /\ calls' = Append(calls, [fn |-> "predict", df |-> input_df', inst |-> model])
    /\ \/ /\ \E label \in Labels : prediction' = label
          /\ pc' = "predict_proba"
          /\ UNCHANGED err
       \/ /\ Raise("predict")
          /\ UNCHANGED prediction
    /\ UNCHANGED << runs, trigger, session, model, fetched, animations, slots, widgets, formShown,
                    submitted, pred_proba, confidence, rendered, footer >>

\* predict_proba wrapped in try/except that falls back to a default vector
PredictProbaDefault ==
    /\ pc = "predict_proba"
    /\ calls' = Append(calls, [fn |-> "predict_proba", df |-> input_df, inst |-> model])
    /\ \/ /\ \E v \in ProbaVectors : pred_proba' = v
          /\ UNCHANGED err
       \/ /\ pred_proba' = << ProbDen, 0 >>
          /\ err' = "predict_proba"
    /\ pc' = "confidence"
    /\ UNCHANGED << runs, trigger, session, model, fetched, animations, slots, widgets, formShown,
                    submitted, input_df, prediction, confidence, rendered, footer >>

\* line 169
PredictProba ==
    /\ pc = "predict_proba"
    /\ calls' = Append(calls, [fn |-> "predict_proba", df |-> input_df, inst |-> model])
    /\ \/ /\ \E v \in ProbaVectors : pred_proba' = v
          /\ pc' = "confidence"
          /\ UNCHANGED err
       \/ /\ Raise("predict_proba")
          /\ UNCHANGED pred_proba
    /\ UNCHANGED << runs, trigger, session, model, fetched, animations, slots, widgets, formShown,
                    submitted, input_df, prediction, confidence, rendered, footer >>

\* max(pred_proba) in place of pred_proba[prediction]
ConfidenceMax(proba, label) ==
    IF proba[1] >= proba[2] THEN proba[1] ELSE proba[2]

\* line 170: pred_proba[prediction]
ConfidenceOf(proba, label) == Index(proba, label)

\* line 170
Confidence ==
    /\ pc = "confidence"
    /\ IF ValidIndex(pred_proba, prediction)
       THEN /\ confidence' = ConfidenceOf(pred_proba, prediction)
            /\ pc' = "box"
            /\ UNCHANGED err
       ELSE /\ Raise("IndexError")
            /\ UNCHANGED confidence
    /\ UNCHANGED << runs, trigger, session, model, fetched, animations, slots, widgets, formShown,
                    submitted, input_df, calls, prediction, pred_proba, rendered, footer >>

\* line 175, in units of 1/Scale
PulsePressure(s, d) == s - d

\* the weights of the mean arterial pressure exchanged
MeanArterialPressureSwapped(s, d) == [num |-> 2 * s + d, den |-> 3 * Scale]

\* line 176, as the fraction num / den of a mmHg
MeanArterialPressure(s, d) == [num |-> s + 2 * d, den |-> 3 * Scale]

\* lines 189-200
DerivedBoxOf(s, d) ==
    [pulse |-> Fmt2(PulsePressure(s, d), Scale),
     map   |-> Fmt2(MeanArterialPressure(s, d).num, MeanArterialPressure(s, d).den)]

\* lines 175-200
DerivedBox ==
    /\ pc = "box"
    /\ box' = << DerivedBoxOf(systolic_bp, diastolic_bp) >>
    /\ pc' = "message"
    /\ UNCHANGED << runs, trigger, session, model, fetched, animations, slots, widgets, formShown,
                    submitted, invocation, message, gauge, report, footer, err >>

\* lines 212-234
MessageOf(p, c) ==
    IF p = 1
    THEN [kind |-> "error", says |-> "presence", conf |-> Fmt2(c, ProbDen),
          expander |-> "What to Do Next?"]
    ELSE [kind |-> "success", says |-> "no signs", conf |-> Fmt2(c, ProbDen),
          expander |-> "Wellness Tip"]

ResultMessage ==
    /\ pc = "message"
    /\ message' = << MessageOf(prediction, confidence) >>
    /\ pc' = "gauge"
    /\ UNCHANGED << runs, trigger, session, model, fetched, animations, slots, widgets, formShown,
                    submitted, invocation, box, gauge, report, footer, err >>

\* the bar colour test inverted
GaugeOfInverted(p, c) ==
    [value     |-> [num |-> c * 100, den |-> ProbDen],
     title     |-> IF p = 1 THEN "Confidence in DR Presence (%)"
                            ELSE "Confidence in No DR (%)",
     axis      |-> << 0, 100 >>,
     bar       |-> IF p = 1 THEN "green" ELSE "red",
     steps     |-> << << 0, 50 >>, << 50, 75 >>, << 75, 100 >> >>,
     threshold |-> [num |-> c * 100, den |-> ProbDen]]

\* lines 245-265; value and threshold are confidence * 100 as num / den
GaugeOf(p, c) ==
    [value     |-> [num |-> c * 100, den |-> ProbDen],
     title     |-> IF p = 1 THEN "Confidence in DR Presence (%)"
                            ELSE "Confidence in No DR (%)",
     axis      |-> << 0, 100 >>,
     bar       |-> IF p = 0 THEN "green" ELSE "red",
     steps     |-> << << 0, 50 >>, << 50, 75 >>, << 75, 100 >> >>,
     threshold |-> [num |-> c * 100, den |-> ProbDen]]

\* lines 243-267
Gauge ==
    /\ pc = "gauge"
    /\ gauge' = << GaugeOf(prediction, confidence) >>
    /\ pc' = "report"
    /\ UNCHANGED << runs, trigger, session, model, fetched, animations, slots, widgets, formShown,
                    submitted, invocation, box, message, report, footer, err >>

\* lines 272-277: the lines of the report text
ReportOf(p, c, s, d) ==
    << "",
       "Prediction: " \o (IF p # 0 THEN "DR Present" ELSE "No DR"),
       "Confidence: " \o Fmt2(c, ProbDen),
       "Pulse Pressure: " \o Fmt2(PulsePressure(s, d), Scale),
       "Mean Arterial Pressure: "
           \o Fmt2(MeanArterialPressure(s, d).num, MeanArterialPressure(s, d).den) >>

\* lines 272-278
Report ==
    /\ pc = "report"
    /\ report' = ReportOf(prediction, confidence, systolic_bp, diastolic_bp)
    /\ pc' = "footer"
    /\ UNCHANGED << runs, trigger, session, model, fetched, animations, slots, widgets, formShown,
                    submitted, invocation, box, message, gauge, footer, err >>

\* lines 283-284
Footer ==
    /\ pc = "footer"
    /\ footer' = TRUE
    /\ pc' = "done"
    /\ UNCHANGED << runs, trigger, session, model, fetched, animations, slots, widgets, formShown,
                    submitted, invocation, rendered, err >>

Next ==
    \/ PageLoad
    \/ Submit
    \/ Download
    \/ LoadModel
    \/ FetchAnimation
    \/ RenderColumns
    \/ InputForm
    \/ Predict
    \/ PredictProba
    \/ Confidence
    \/ DerivedBox
    \/ ResultMessage
    \/ Gauge
    \/ Report
    \/ Footer

Spec == Init /\ [][Next]_vars

\* ------------------------------------------------------------------------
\* The display block (lines 175-278) on every pair of pressures of the
\* domain: the state right after line 170 of a submitted run.
InitMetrics ==
    /\ pc = "box"
    /\ runs = 1
    /\ trigger = "submit"
    /\ cache = 1
    /\ opens = 1
    /\ loads = 1
    /\ model = 1
    /\ fetched = << HttpOk, HttpOk >>
    /\ animations = << "json", "json" >>
    /\ slots = << "lottie", "lottie" >>
    /\ age = AgeDefault
    /\ systolic_bp \in SysMin * Scale .. SysMax * Scale
    /\ diastolic_bp \in DiaMin * Scale .. DiaMax * Scale
    /\ cholesterol = CholDefault * Scale
    /\ formShown = TRUE
    /\ submitted = TRUE
    /\ input_df = InputDf(age, systolic_bp, diastolic_bp, cholesterol)
    /\ calls = << [fn |-> "predict", df |-> input_df, inst |-> model],
                  [fn |-> "predict_proba", df |-> input_df, inst |-> model] >>
    /\ prediction \in {0, 1}
    /\ pred_proba = << ProbDen - 1, 1 >>
    /\ confidence = ConfidenceOf(pred_proba, prediction)
    /\ box = NoValue
    /\ message = NoValue
    /\ gauge = NoValue
    /\ report = NoValue
    /\ footer = FALSE
    /\ err = "none"

NextMetrics ==
    \/ DerivedBox
    \/ ResultMessage
    \/ Gauge
    \/ Report
    \/ Footer

SpecMetrics == InitMetrics /\ [][NextMetrics]_vars

\* ------------------------------------------------------------------------
\* Properties
\* ------------------------------------------------------------------------
FetchErrors == {"Timeout", "ConnectionError", "JSONDecodeError"}
InvocationErrors == {"predict", "predict_proba", "IndexError"}
NothingRendered ==
    box = NoValue /\ message = NoValue /\ gauge = NoValue /\ report = NoValue
ResultRendered ==
    Len(box) = 1 /\ Len(message) = 1 /\ Len(gauge) = 1 /\ report # NoValue
ColumnsRendered == pc = "form" \/ formShown

\* C1: no failure of a decorative fetch (exception raised by the GET, non-200
\* status, body that is not JSON) ever ends a script run in an exception; the run
\* goes on to the form.
C1_FetchFailureNeverFatal ==
    ~(pc = "error" /\ err \in FetchErrors)

\* C2: the artifact is deserialized at most once per process; once load_model has
\* succeeded the file is never opened again, every later run binds `model` to that
\* one cached instance, and every invocation is made on it.
C2_LoadedOnce ==
    /\ [](/\ loads <= 1
          /\ cache \in {0, 1}
          /\ (cache # 0 => loads = 1)
          /\ model \in {0, cache}
          /\ (pc \notin {"load_model", "error"} \cup Idle => model = 1)
          /\ \A k \in 1 .. Len(calls) : calls[k].inst = 1)
    /\ [][cache # 0 => cache' = cache /\ opens' = opens /\ loads' = loads]_vars

\* a run later than the one that read the file invokes the cached instance
C2_Witness ==
    /\ runs = 3
    /\ opens = 1
    /\ Len(calls) = 2
    /\ calls[2].inst = 1

\* C3: every record passed to predict / predict_proba has each field inside its
\* domain; a typed value outside the domain is clamped or refused by the widget,
\* the two ends of the age domain are accepted as typed.
C3_RequestsInDomain ==
    /\ age \in AgeMin .. AgeMax
    /\ systolic_bp \in SysMin * Scale .. SysMax * Scale
    /\ diastolic_bp \in DiaMin * Scale .. DiaMax * Scale
    /\ cholesterol \in CholMin * Scale .. CholMax * Scale
    /\ \A k \in 1 .. Len(calls) :
          \A f \in 1 .. Len(calls[k].df) :
             LET col == calls[k].df[f][1]
                 val == calls[k].df[f][2]
             IN  /\ col = "age" => val \in AgeMin .. AgeMax
                 /\ col = "systolic_bp" => val \in SysMin * Scale .. SysMax * Scale
                 /\ col = "diastolic_bp" => val \in DiaMin * Scale .. DiaMax * Scale
                 /\ col = "cholesterol" => val \in CholMin * Scale .. CholMax * Scale
    /\ NumberInput(AgeMin, AgeMax, age, AgeMin) = {AgeMin}
    /\ NumberInput(AgeMin, AgeMax, age, AgeMax) = {AgeMax}
    /\ NumberInput(AgeMin, AgeMax, age, AgeMin - 1) \subseteq {AgeMin, age}
    /\ NumberInput(AgeMin, AgeMax, age, AgeMax + 1) \subseteq {AgeMax, age}

\* a request built after values were typed: age at its upper end, systolic at its
\* lower end (reached only by clamping a value typed below it)
C3_Witness ==
    /\ Len(calls) = 2
    /\ calls[2].df[1] = << "age", AgeMax >>
    /\ calls[2].df[2] = << "systolic_bp", SysMin * Scale >>

\* C4: a run not started by the submit button builds no request, makes no call on
\* the model and renders no part of a result; a run started by it that reaches the
\* end made exactly one predict and one predict_proba call and rendered one
\* result; up to the invocation a run shows nothing of an earlier result.
C4_OnlyOnSubmit ==
    /\ submitted => trigger = "submit"
    /\ trigger # "submit" =>
          /\ calls = << >>
          /\ input_df = NoValue
          /\ prediction = Unbound
          /\ pred_proba = NoValue
          /\ confidence = Unbound
          /\ NothingRendered
    /\ pc \in {"load_model", "fetch", "columns", "form", "predict", "predict_proba",
               "confidence"} => NothingRendered
    /\ pc = "done" /\ trigger = "submit" =>
          /\ Len(calls) = 2
          /\ calls[1].fn = "predict"
          /\ calls[2].fn = "predict_proba"
          /\ ResultRendered

\* the run started by "Download Report" of a displayed result ends with no result
C4_Witness ==
    /\ trigger = "download"
    /\ pc = "done"
    /\ footer
    /\ NothingRendered

\* C5: the record passed to the model has exactly the columns age, systolic_bp,
\* diastolic_bp, cholesterol, in that order, holding the form's values; no derived
\* quantity is in it.
C5_FourRawFields ==
    \A k \in 1 .. Len(calls) :
       /\ Len(calls[k].df) = 4
       /\ calls[k].df[1] = << "age", age >>
       /\ calls[k].df[2] = << "systolic_bp", systolic_bp >>
       /\ calls[k].df[3] = << "diastolic_bp", diastolic_bp >>
       /\ calls[k].df[4] = << "cholesterol", cholesterol >>

\* both calls of a submission made with typed (non-default) values
C5_Witness ==
    /\ Len(calls) = 2
    /\ age = AgeMin
    /\ diastolic_bp = DiaMax * Scale
    /\ cholesterol = CholMin * Scale

\* C6: the confidence in the message, on the gauge and in the report is the entry
\* of the probability vector at the predicted label.
C6_ConfidenceAtLabel ==
    LET c == Index(pred_proba, prediction) IN
    /\ confidence # Unbound => confidence = c
    /\ message # NoValue => message[1].conf = Fmt2(c, ProbDen)
    /\ gauge # NoValue =>
          /\ gauge[1].value = [num |-> 100 * c, den |-> ProbDen]
          /\ gauge[1].threshold = [num |-> 100 * c, den |-> ProbDen]
    /\ report # NoValue => report[3] = "Confidence: " \o Fmt2(c, ProbDen)

\* a displayed confidence below one half: the label is not the arg max
C6_Witness ==
    /\ report # NoValue
    /\ prediction = 1
    /\ pred_proba[2] < pred_proba[1]
    /\ 2 * confidence < ProbDen
    /\ message[1].conf = "0.38"

\* C7: a fetch answered with a status other than 200 returns None without raising;
\* its column shows the warning, the other column shows what its own fetch gave,
\* and a submitted run that ends shows the result of its inputs and of the model's
\* answer.
C7_Non200LeavesOutcome ==
    \A i \in 1 .. Len(fetched) :
       (fetched[i] # HttpOk /\ fetched[i] # 0) =>
          /\ Len(animations) >= i
          /\ animations[i] = "None"
          /\ ColumnsRendered =>
                /\ slots[i] = "warning"
                /\ slots[3 - i] = IF animations[3 - i] = "json" THEN "lottie"
                                                                ELSE "warning"
          /\ (pc = "done" /\ trigger = "submit") =>
                /\ box = << DerivedBoxOf(systolic_bp, diastolic_bp) >>
                /\ message = << MessageOf(prediction, Index(pred_proba, prediction)) >>
                /\ gauge = << GaugeOf(prediction, Index(pred_proba, prediction)) >>
                /\ report = ReportOf(prediction, Index(pred_proba, prediction),
                                     systolic_bp, diastolic_bp)

\* a submitted run that ended with the first fetch answered 404
C7_Witness ==
    /\ pc = "done"
    /\ trigger = "submit"
    /\ fetched = << 404, HttpOk >>
    /\ slots = << "warning", "lottie" >>
    /\ ResultRendered

\* two decimals of h hundredths, h >= 0
C8_Dec2(h) ==
    ToString(h \div 100) \o "." \o ToString((h \div 10) % 10) \o ToString(h % 10)

\* the text t shows num/den to two decimals
C8_Shows(t, num, den) ==
    LET a == IF num < 0 THEN 0 - num ELSE num
        q == (100 * a) \div den
    IN  \E h \in {q, q + 1} :
           /\ 2 * (IF den * h >= 100 * a THEN den * h - 100 * a
                                         ELSE 100 * a - den * h) <= den
           /\ t = (IF num < 0 THEN "-" ELSE "") \o C8_Dec2(h)

\* C8: the box and the report show systolic - diastolic and
\* (systolic + 2 * diastolic) / 3 to two decimals; 120/80 gives 40.00 and 93.33,
\* 130/60 gives 70.00 and 83.33.
C8_DerivedMetrics ==
    /\ box # NoValue =>
          /\ C8_Shows(box[1].pulse, systolic_bp - diastolic_bp, Scale)
          /\ C8_Shows(box[1].map, systolic_bp + 2 * diastolic_bp, 3 * Scale)
          /\ (systolic_bp = 120 * Scale /\ diastolic_bp = 80 * Scale) =>
                box[1] = [pulse |-> "40.00", map |-> "93.33"]
          /\ (systolic_bp = 130 * Scale /\ diastolic_bp = 60 * Scale) =>
                box[1] = [pulse |-> "70.00", map |-> "83.33"]
    /\ report # NoValue =>
          /\ report[4] = "Pulse Pressure: " \o box[1].pulse
          /\ report[5] = "Mean Arterial Pressure: " \o box[1].map

C8_Witness ==
    /\ report # NoValue
    /\ systolic_bp = 130 * Scale
    /\ diastolic_bp = 60 * Scale
    /\ box[1].map = "83.33"
    /\ report[4] = "Pulse Pressure: 70.00"

\* C9: when predict or predict_proba raises, or the label is no index of the
\* vector, the run stops there: nothing of the result and no footer is rendered,
\* and each of the two methods was called at most once.
C9_InvocationFailure ==
    /\ err \in InvocationErrors =>
          /\ pc = "error"
          /\ NothingRendered
          /\ ~footer
          /\ confidence = Unbound
    /\ Len(calls) <= 2
    /\ \A j, k \in 1 .. Len(calls) : calls[j].fn = calls[k].fn => j = k

C9_Witness ==
    /\ pc = "error"
    /\ err = "IndexError"
    /\ prediction = 2
    /\ Len(calls) = 2

\* C10: for a label 0 or 1 the message, the gauge title, the gauge bar and the
\* report line name the same class.
C10_SameClassEverywhere ==
    prediction \in {0, 1} =>
       /\ Len(message) <= 1
       /\ message # NoValue =>
             /\ message[1].says = IF prediction = 1 THEN "presence" ELSE "no signs"
             /\ message[1].kind = IF prediction = 1 THEN "error" ELSE "success"
       /\ gauge # NoValue =>
             /\ gauge[1].title = IF prediction = 1 THEN "Confidence in DR Presence (%)"
                                                   ELSE "Confidence in No DR (%)"
             /\ gauge[1].bar = IF prediction = 1 THEN "red" ELSE "green"
       /\ report # NoValue =>
             report[2] = IF prediction = 1 THEN "Prediction: DR Present"
                                           ELSE "Prediction: No DR"

C10_Witness ==
    /\ prediction = 0
    /\ report # NoValue
    /\ report[2] = "Prediction: No DR"
    /\ gauge[1].bar = "green"
    /\ message[1].says = "no signs"
====
